---- MODULE Spec2Model ----
(***************************************************************************)
(* Model of src/chatbot.py: the /chat response-resolution pipeline of the  *)
(* Quantum Gateway assistant (response cache with TTL and capacity          *)
(* eviction, intent detection, canned responses, the Ollama invocation on  *)
(* a bounded thread pool, the response enhancer).                          *)
(*                                                                         *)
(* Texts are TLA+ strings; the text functions of the program (lower,       *)
(* strip, substring search, replace, the ANSI regular expression) are      *)
(* computed character by character.  Time is counted in minutes.           *)
(* hashlib.md5 is taken to be injective on the normalised messages, so a   *)
(* fingerprint is represented by the normalised message it digests.        *)
(***************************************************************************)
EXTENDS Integers, Sequences, FiniteSets, TLC

(***************************************************************************)
(* Bounds of the model.                                                    *)
(***************************************************************************)
\* ResponseCache(max_size=...): the program's default is 200 (chatbot.py:36);
\* the model runs the same code with a small capacity.
max_size == 2
\* Number of /chat requests of a behaviour.
NumReq == 3
\* The clock advances in steps of TickStep minutes, up to MaxTime.
TickStep == 30
MaxTime == 60

(***************************************************************************)
(* Program constants.                                                      *)
(***************************************************************************)
ttl_minutes == 60
max_workers == 3

\* Python's None and a present value.
None == << >>
Some(x) == << x >>
IsNone(o) == o = << >>
Val(o) == o[1]

(***************************************************************************)
(* Characters and strings.                                                 *)
(***************************************************************************)
ESC == ""

Char(s, i) == SubSeq(s, i, i)

UPPER == "ABCDEFGHIJKLMNOPQRSTUVWXYZÁÉÍÓÚÑÜ"
LOWER == "abcdefghijklmnopqrstuvwxyzáéíóúñü"

\* str.lower() of one character
LowerChar(c) ==
    IF \E i \in 1..Len(UPPER) : Char(UPPER, i) = c
    THEN Char(LOWER, CHOOSE i \in 1..Len(UPPER) : Char(UPPER, i) = c)
    ELSE c

\* str.lower(): every character lowered (the text is split in halves to keep
\* the recursion shallow)
RECURSIVE Lower(_)
Lower(s) ==
    IF Len(s) = 0 THEN ""
    ELSE IF Len(s) = 1 THEN LowerChar(s)
    ELSE Lower(SubSeq(s, 1, Len(s) \div 2)) \o Lower(SubSeq(s, Len(s) \div 2 + 1, Len(s)))

\* the characters str.strip() removes
Whitespace == {" ", "\t", "\n", "\r"}

RECURSIVE LStrip(_)
LStrip(s) ==
    IF Len(s) > 0 /\ Char(s, 1) \in Whitespace
    THEN LStrip(SubSeq(s, 2, Len(s))) ELSE s

RECURSIVE RStrip(_)
RStrip(s) ==
    IF Len(s) > 0 /\ Char(s, Len(s)) \in Whitespace
    THEN RStrip(SubSeq(s, 1, Len(s) - 1)) ELSE s

\* str.strip()
Strip(s) == RStrip(LStrip(s))

\* sub in s
Contains(s, sub) ==
    \E i \in 1..(Len(s) - Len(sub) + 1) : SubSeq(s, i, i + Len(sub) - 1) = sub

\* the positions >= i of s where old occurs
Occurrences(s, old, i) ==
    {j \in i..(Len(s) - Len(old) + 1) : SubSeq(s, j, j + Len(old) - 1) = old}

\* s from position i on, each occurrence of old replaced, left to right and
\* without overlap
RECURSIVE ReplaceFrom(_, _, _, _)
ReplaceFrom(s, old, new, i) ==
    IF Occurrences(s, old, i) = {} THEN SubSeq(s, i, Len(s))
    ELSE LET j == CHOOSE x \in Occurrences(s, old, i) :
                      \A y \in Occurrences(s, old, i) : x <= y
         IN  SubSeq(s, i, j - 1) \o new \o ReplaceFrom(s, old, new, j + Len(old))

\* str.replace(old, new), old not empty
Replace(s, old, new) == ReplaceFrom(s, old, new, 1)

(***************************************************************************)
(* ANSI_ESCAPE = \x1B(?:[@-Z\\-_]|\[[0-?]*[ -/]*[@-~])                      *)
(***************************************************************************)
\* [@-Z\\-_]
Fe == "@ABCDEFGHIJKLMNOPQRSTUVWXYZ\\]^_"
\* [0-?]
ParamBytes == "0123456789:;<=>?"
\* [ -/]
IntermediateBytes == " !\"#$%&'()*+,-./"
\* [@-~], but for the backquote (0x60), which no TLA+ string can hold and no
\* text of the model contains
FinalBytes == "@ABCDEFGHIJKLMNOPQRSTUVWXYZ[\\]^_abcdefghijklmnopqrstuvwxyz{|}~"

InClass(c, class) == \E i \in 1..Len(class) : Char(class, i) = c

\* the first position >= i of s whose character is not in class (greedy *)
RECURSIVE SkipClass(_, _, _)
SkipClass(s, i, class) ==
    IF i <= Len(s) /\ InClass(Char(s, i), class)
    THEN SkipClass(s, i + 1, class) ELSE i

\* the length of the match of ANSI_ESCAPE at position i of s, 0 if none
MatchLen(s, i) ==
    IF i + 1 > Len(s) \/ Char(s, i) # ESC THEN 0
    ELSE IF InClass(Char(s, i + 1), Fe) THEN 2
    ELSE IF Char(s, i + 1) = "["
         THEN LET k == SkipClass(s, SkipClass(s, i + 2, ParamBytes),
                                 IntermediateBytes)
              IN  IF k <= Len(s) /\ InClass(Char(s, k), FinalBytes)
                  THEN k - i + 1 ELSE 0
         ELSE 0

\* the positions >= i of s where ANSI_ESCAPE matches
Matches(s, i) == {j \in i..Len(s) : MatchLen(s, j) > 0}

\* s from position i on without the matches of ANSI_ESCAPE, found left to
\* right and without overlap
RECURSIVE RemoveFrom(_, _)
RemoveFrom(s, i) ==
    IF Matches(s, i) = {} THEN SubSeq(s, i, Len(s))
    ELSE LET j == CHOOSE x \in Matches(s, i) : \A y \in Matches(s, i) : x <= y
         IN  SubSeq(s, i, j - 1) \o RemoveFrom(s, j + MatchLen(s, j))

\* ANSI_ESCAPE.sub('', text)
remove_ansi(text) == RemoveFrom(text, 1)

(***************************************************************************)
(* The tables of the program.                                              *)
(***************************************************************************)
INTELLIGENT_RESPONSES ==
    [ saludo |-> "¡Hola! Soy tu asistente de Quantum Gateway. Veo que estás en nuestra plataforma. ¿Necesitas ayuda con reservas, planes hoteleros o guía en alguna sección específica?",
      despedida |-> "¡Fue un gusto ayudarte! Recuerda que puedes navegar por el menú superior para acceder a todas las funciones. ¡Hasta pronto!",
      agradecimiento |-> "¡De nada! Estoy aquí para ayudarte en lo que necesites. Si tienes más preguntas sobre la plataforma, no dudes en consultarme.",
      planes_generico |-> "Nuestros planes de administración hotelera incluyen gestión de reservas, panel de control, reportes y soporte. Para ver detalles específicos y precios, ve al menú 'Planes' donde podrás comparar características y suscribirte al que mejor se adapte a tu hotel.",
      reservas_generico |-> "El sistema de reservas te permite buscar disponibilidad, seleccionar habitaciones y completar tu booking. Desde 'Reservas' en el menú superior puedes ingresar fechas, ver opciones y confirmar. ¿Te guío paso a paso?",
      cancelacion |-> "Para cancelaciones, accede a 'Mi Cuenta' → 'Mis Reservas', selecciona la reserva y usa la opción 'Cancelar'. Si necesitas ayuda con el proceso, puedo explicarte cada paso en pantalla.",
      contacto |-> "Para atención personalizada, ve a 'Soporte' en el menú donde encontrarás nuestro WhatsApp, email y formulario de contacto. Estamos para ayudarte.",
      cuenta |-> "En 'Mi Cuenta' gestionas tu perfil, ves historial de reservas, facturas y configuraciones. Es tu centro de control personal." ]

\* each pattern is an alternation of literal texts; the order is the dict's
QUESTION_PATTERNS ==
    << [alts |-> {"hola", "buenos días", "buenas tardes"}, key |-> "saludo"],
       [alts |-> {"gracias", "thanks"}, key |-> "agradecimiento"],
       [alts |-> {"adios", "chao", "hasta luego"}, key |-> "despedida"],
       [alts |-> {"plan", "suscripción", "precio", "tarifa"}, key |-> "planes_generico"],
       [alts |-> {"reservar", "booking", "habitación", "alojamiento"}, key |-> "reservas_generico"],
       [alts |-> {"cancelar", "anular"}, key |-> "cancelacion"],
       [alts |-> {"contacto", "soporte", "ayuda", "whatsapp"}, key |-> "contacto"],
       [alts |-> {"cuenta", "perfil", "mis datos"}, key |-> "cuenta"],
       [alts |-> {"como funciona", "qué es", "explica"}, key |-> "explicacion_general"] >>

\* re.search(pattern, text) for pattern number i
Search(i, text) == \E a \in QUESTION_PATTERNS[i].alts : Contains(text, a)

\* message.lower().strip(), the text that hashlib.md5 digests
generar_hash_mensaje(message) == Strip(Lower(message))

\* mutant: the last pattern of the table that matches wins
detectar_intencion_ultima(message) ==
    LET message_lower == Lower(message)
        hits == {i \in 1..Len(QUESTION_PATTERNS) : Search(i, message_lower)}
    IN  IF hits = {} THEN None
        ELSE Some(QUESTION_PATTERNS[CHOOSE i \in hits : \A j \in hits : i >= j].key)

detectar_intencion(message) ==
    LET message_lower == Lower(message)
        hits == {i \in 1..Len(QUESTION_PATTERNS) : Search(i, message_lower)}
    IN  IF hits = {} THEN None
        ELSE Some(QUESTION_PATTERNS[CHOOSE i \in hits : \A j \in hits : i <= j].key)

\* mutant: a label without a template gets the greeting (a dict.get default)
procesar_respuesta_rapida_default(intencion, mensaje_original) ==
    IF intencion \in DOMAIN INTELLIGENT_RESPONSES
    THEN Some(INTELLIGENT_RESPONSES[intencion])
    ELSE Some(INTELLIGENT_RESPONSES.saludo)

procesar_respuesta_rapida(intencion, mensaje_original) ==
    IF intencion \in DOMAIN INTELLIGENT_RESPONSES
    THEN LET respuesta_base == INTELLIGENT_RESPONSES[intencion]
         IN  IF Contains(Lower(mensaje_original), "paso a paso")
             THEN Some(respuesta_base \o " Sí, te explico cada paso: ")
             ELSE IF Contains(Lower(mensaje_original), "urgente")
                  THEN Some(respuesta_base \o " Para atención inmediata, ve directamente a Soporte → Contacto.")
                  ELSE Some(respuesta_base)
    ELSE None

\* mutant: the offer of guidance is never appended
mejorar_respuesta_sin_oferta(respuesta, mensaje_original) ==
    IF Contains(Lower(respuesta), "ve a") /\ ~Contains(Lower(respuesta), "menú")
    THEN Replace(respuesta, "Ve a ", "Ve al menú ")
    ELSE respuesta

\* mutant: the response is returned as it came
mejorar_respuesta_identidad(respuesta, mensaje_original) == respuesta

mejorar_respuesta_contexto(respuesta, mensaje_original) ==
    LET r1 == IF Contains(Lower(respuesta), "ve a") /\ ~Contains(Lower(respuesta), "menú")
              THEN Replace(respuesta, "Ve a ", "Ve al menú ")
              ELSE respuesta
    IN  IF ~Contains(Lower(r1), "paso a paso") /\ ~Contains(Lower(r1), "guiar")
        THEN r1 \o " ¿Necesitas que te guíe paso a paso?"
        ELSE r1

\* the texts the program returns when the model gives no answer
TIMEOUT_RESPONSE == "Estoy optimizando la respuesta. Por favor, revisa en el menú la sección correspondiente o intenta de nuevo."
fallback_response == "En este momento puedo sugerirte: revisa en el menú superior las secciones disponibles. Para ayuda inmediata, ve a Soporte → Contacto."

(***************************************************************************)
(* ResponseCache.  self.cache is a dict: the sequence of its entries in    *)
(* insertion order, which is the order min() and keys() iterate in.        *)
(***************************************************************************)
ttl == ttl_minutes

Keys(c) == {c[i].key : i \in 1..Len(c)}
IndexOf(c, k) == CHOOSE i \in 1..Len(c) : c[i].key = k
EntryOf(c, k) == c[IndexOf(c, k)]
\* del self.cache[k]
Delete(c, k) == SelectSeq(c, LAMBDA e : e.key # k)

\* mutant: the comparison with ttl is inverted
Fresh_Inverted(e, t) == t - e.timestamp > ttl
\* mutant: an entry of age ttl is still served
Fresh_Inclusive(e, t) == t - e.timestamp <= ttl

\* entry['timestamp'] is recent enough at time t
Fresh(e, t) == t - e.timestamp < ttl

\* the value ResponseCache.get(key) returns at time t
CacheGetResult(c, k, t) ==
    IF k \in Keys(c) /\ Fresh(EntryOf(c, k), t)
    THEN Some(EntryOf(c, k).response)
    ELSE None

\* mutant: a hit refreshes the entry's timestamp
CacheGetStore_Touch(c, k, t) ==
    IF k \in Keys(c)
    THEN IF Fresh(EntryOf(c, k), t)
         THEN [c EXCEPT ![IndexOf(c, k)].timestamp = t]
         ELSE Delete(c, k)
    ELSE c

\* self.cache after ResponseCache.get(key) at time t
CacheGetStore(c, k, t) ==
    IF k \in Keys(c) /\ ~Fresh(EntryOf(c, k), t) THEN Delete(c, k) ELSE c

\* mutant: max instead of min
OldestKey_Newest(c) ==
    c[CHOOSE i \in 1..Len(c) :
        \A j \in 1..Len(c) :
            \/ c[i].timestamp > c[j].timestamp
            \/ c[i].timestamp = c[j].timestamp /\ i <= j].key

\* min(self.cache.keys(), key=lambda k: self.cache[k]['timestamp']): the first
\* key, in iteration order, of the least timestamp
OldestKey(c) ==
    c[CHOOSE i \in 1..Len(c) :
        \A j \in 1..Len(c) :
            \/ c[i].timestamp < c[j].timestamp
            \/ c[i].timestamp = c[j].timestamp /\ i <= j].key

\* mutant: nothing is evicted
Evict_Never(c) == c

\* self.cache after the eviction step of ResponseCache.set
Evict(c) == IF Len(c) >= max_size THEN Delete(c, OldestKey(c)) ELSE c

\* mutant: an existing key keeps its entry (dict.setdefault)
Store_KeepFirst(c, k, response, t) ==
    IF k \in Keys(c) THEN c
    ELSE Append(c, [key |-> k, response |-> response, timestamp |-> t])

\* self.cache[key] = {...}: an existing key keeps its place in the dict
Store(c, k, response, t) ==
    LET e == [key |-> k, response |-> response, timestamp |-> t]
    IN  IF k \in Keys(c) THEN [c EXCEPT ![IndexOf(c, k)] = e] ELSE Append(c, e)

\* mutant: the first response written under a key is kept
CacheSet_KeepExisting(c, k, response, t) ==
    IF k \in Keys(c) THEN c ELSE Store(Evict(c), k, response, t)

\* self.cache after ResponseCache.set(key, response) at time t
CacheSet(c, k, response, t) == Store(Evict(c), k, response, t)

(***************************************************************************)
(* The inputs of the model, and the program's text functions tabulated on  *)
(* them (each table is the function above, applied to every input).        *)
(***************************************************************************)
\* the request bodies sent to /chat
Messages == {"", " ", "hola", " HOLA", "explica", "xyz"}

\* what the ollama process writes to its standard output when it exits with 0
Stdouts == {"", " " \o ESC \o "[1mVe a Planes" \o ESC \o "[0m" \o "\n"}

\* how subprocess.run ends
Outcomes == {"success", "nonzero", "timeout", "launch_error"}

\* Python's truth value of an Optional[str]
Truthy(o) == ~IsNone(o) /\ Val(o) # ""

\* mutant: only the empty message is refused
IsBlank_EmptyOnly(m) == m = ""

\* not req.message or not req.message.strip()
IsBlank(m) == m = "" \/ Strip(m) = ""

\* mutant: no intent has a quick response
RespuestaRapida_Ninguna(message) == None

\* the value of respuesta_rapida in chat, None when no intent is detected
RespuestaRapida(message) ==
    LET intencion == detectar_intencion(message)
    IN  IF Truthy(intencion)
        THEN procesar_respuesta_rapida(Val(intencion), message)
        ELSE None

\* the value run_ollama_optimizado returns
run_ollama_optimizado(outcome, stdout) ==
    CASE outcome = "success" -> Some(remove_ansi(Strip(stdout)))
      [] outcome = "nonzero" -> None
      [] outcome = "timeout" -> Some(TIMEOUT_RESPONSE)
      [] outcome = "launch_error" -> None

\* the text chat returns and caches for the value raw_response of the model call
FinalResponse(raw_response, message) ==
    IF IsNone(raw_response) THEN fallback_response
    ELSE mejorar_respuesta_contexto(Val(raw_response), message)

\* the local variables of chat that depend on the request body alone
Locals ==
    [m \in Messages |->
        [blank |-> IsBlank(m),
         message_hash |-> generar_hash_mensaje(Strip(m)),
         intencion |-> detectar_intencion(Strip(m)),
         respuesta_rapida |-> RespuestaRapida(Strip(m))]]

\* raw_response and final_response for each end of the model call
ModelResult ==
    [m \in Messages, o \in Outcomes, s \in Stdouts |->
        [raw_response |-> run_ollama_optimizado(o, s),
         final_response |-> FinalResponse(run_ollama_optimizado(o, s), Strip(m))]]

\* the cache keys of the messages that pass the validation
Fingerprints == {Locals[m].message_hash : m \in {x \in Messages : ~Locals[x].blank}}

(***************************************************************************)
(* The state.                                                              *)
(***************************************************************************)
VARIABLES
    cache,    \* response_cache.cache
    now,      \* datetime.now(), in minutes
    req,      \* per request: the handler's position and its message
    queue,    \* thread_pool's work queue: the requests whose call is pending
    out,      \* the HTTP response the latest step sent, NoOut if it sent none
    answer,   \* history: per fingerprint, one of the answers computed for it
              \* so far (not read from the cache), and whether the entry
              \* that answer wrote is still the fingerprint's entry (live)
    call,     \* the latest call made on the store directly (SpecCache)
    hist      \* history of the calls made on the store directly (SpecCache)

vars == <<cache, now, req, queue, out, answer, call, hist>>

\* the requests of the behaviour
Req == DOMAIN req

\* mutant: a worker thread that has run a call is never free again
Running_NeverFreed == {r \in Req : req[r].pc \in {"running", "finished", "done"}}

\* the requests a worker thread is running run_ollama_optimizado for
Running == {r \in Req : req[r].pc = "running"}
\* the requests whose model call is pending, running or awaited
InFlight == {r \in Req : req[r].pc \in {"queued", "running", "finished"}}

\* no call on the store yet
NoCall == [op |-> "none", key |-> "", value |-> None, removed |-> FALSE]
\* pure: so far the store has only seen puts of keys that were new, n of them,
\* the first of key first, and no entry has expired
NoHist == [pure |-> TRUE, n |-> 0, first |-> ""]
Impure == [pure |-> FALSE, n |-> 0, first |-> ""]

NoOut ==
    [id |-> 0, message |-> "", status |-> 0, response |-> "", cached |-> FALSE,
     outcome |-> "none", trace |-> << >>]

Init ==
    /\ cache = << >>
    /\ now = 0
    /\ req = [r \in 1..NumReq |-> [pc |-> "idle", message |-> ""]]
    /\ queue = << >>
    /\ out = NoOut
    /\ answer = [k \in Fingerprints |-> None]
    /\ call = NoCall
    /\ hist = NoHist

\* the history after a step that leaves the store as c: an answer whose
\* fingerprint has no entry any more is not live
Forget(a, c) ==
    [k \in DOMAIN a |->
        IF ~IsNone(a[k]) /\ k \notin Keys(c)
        THEN Some([Val(a[k]) EXCEPT !.live = FALSE]) ELSE a[k]]

\* the histories after response was computed for m and written under k: the
\* new answer is remembered, or the one remembered before is kept
Remember(a, c, k, m, response, t) ==
    {Forget([a EXCEPT ![k] = Some([message |-> m, response |-> response,
                                   at |-> t, live |-> TRUE])], c)}
    \cup (IF IsNone(a[k]) THEN {}
          ELSE {Forget([a EXCEPT ![k] = Some([Val(a[k]) EXCEPT !.live = FALSE])], c)})

\* the request has been answered
Done == [pc |-> "done", message |-> ""]

\* raise HTTPException(status_code=400, ...)
Reject(r, m) ==
    [NoOut EXCEPT !.id = r, !.message = m, !.status = 400,
                  !.trace = <<"ReceiveMessage">>]

\* mutant: the field cached defaults to True
ChatResponse_CachedDefault(r, m, response, cached, outcome, trace) ==
    [id |-> r, message |-> m, status |-> 200, response |-> response,
     cached |-> TRUE, outcome |-> outcome, trace |-> trace]

\* return ChatResponse(response=..., cached=...), with status 200
ChatResponse(r, m, response, cached, outcome, trace) ==
    [id |-> r, message |-> m, status |-> 200, response |-> response,
     cached |-> cached, outcome |-> outcome, trace |-> trace]

\* the pipeline states of the handler up to the canned resolver
Classified(m) ==
    IF Truthy(Locals[m].intencion)
    THEN <<"ReceiveMessage", "CheckCache", "ClassifyIntent", "ResolveCanned">>
    ELSE <<"ReceiveMessage", "CheckCache", "ClassifyIntent">>

\* the pipeline states of the handler after the model call
AfterModel(outcome) ==
    CASE outcome = "success" -> <<"Sanitize", "Enhance", "CacheWrite", "Respond">>
      [] outcome = "timeout" -> <<"Enhance", "CacheWrite", "Respond">>
      [] OTHER -> <<"CacheWrite", "Respond">>

(***************************************************************************)
(* POST /chat, from the request's arrival to its first await: the event    *)
(* loop runs this part of the handler without interleaving.  Requests are  *)
(* numbered in the order of their arrival.                                 *)
(***************************************************************************)
Chat(r, m) ==
    /\ req[r].pc = "idle"
    /\ \A p \in Req : p < r => req[p].pc # "idle"
    /\ LET message_hash == Locals[m].message_hash
           cached_response == CacheGetResult(cache, message_hash, now)
           afterGet == CacheGetStore(cache, message_hash, now)
           respuesta_rapida == Locals[m].respuesta_rapida
       IN  \/ /\ Locals[m].blank
              /\ req' = [req EXCEPT ![r] = Done]
              /\ out' = Reject(r, m)
              /\ UNCHANGED <<cache, queue, answer>>
           \/ /\ ~Locals[m].blank
              /\ Truthy(cached_response)
              /\ req' = [req EXCEPT ![r] = Done]
              /\ out' = ChatResponse(r, m, Val(cached_response), TRUE, "none",
                                     <<"ReceiveMessage", "CheckCache", "Respond">>)
              /\ cache' = afterGet
              /\ answer' = Forget(answer, cache')
              /\ UNCHANGED queue
           \/ /\ ~Locals[m].blank
              /\ ~Truthy(cached_response)
              /\ Truthy(respuesta_rapida)
              /\ cache' = CacheSet(afterGet, message_hash, Val(respuesta_rapida), now)
              /\ req' = [req EXCEPT ![r] = Done]
              /\ out' = ChatResponse(r, m, Val(respuesta_rapida), FALSE, "none",
                                     Classified(m) \o <<"CacheWrite", "Respond">>)
              /\ answer' \in Remember(answer, cache', message_hash, m,
                                       Val(respuesta_rapida), now)
              /\ UNCHANGED queue
           \/ /\ ~Locals[m].blank
              /\ ~Truthy(cached_response)
              /\ ~Truthy(respuesta_rapida)
              \* await loop.run_in_executor(thread_pool, run_ollama_optimizado, prompt)
              /\ req' = [req EXCEPT ![r] = [pc |-> "queued", message |-> m]]
              /\ queue' = Append(queue, r)
              /\ cache' = afterGet
              /\ out' = NoOut
              /\ answer' = Forget(answer, cache')
    /\ UNCHANGED <<now, call, hist>>

(***************************************************************************)
(* thread_pool: a free worker thread takes the oldest pending call.        *)
(***************************************************************************)
\* mutant: every pending call gets a thread of its own
WorkerStart_Unbounded ==
    /\ queue # << >>
    /\ req' = [req EXCEPT ![Head(queue)].pc = "running"]
    /\ queue' = Tail(queue)
    /\ out' = NoOut
    /\ UNCHANGED <<cache, now, answer, call, hist>>

WorkerStart ==
    /\ queue # << >>
    /\ Cardinality(Running) < max_workers
    /\ req' = [req EXCEPT ![Head(queue)].pc = "running"]
    /\ queue' = Tail(queue)
    /\ out' = NoOut
    /\ UNCHANGED <<cache, now, answer, call, hist>>

\* mutant: a call that has ended is submitted to the pool again
WorkerFinish_Retry(r) ==
    /\ req[r].pc = "running"
    /\ req' = [req EXCEPT ![r].pc = "queued"]
    /\ queue' = Append(queue, r)
    /\ out' = NoOut
    /\ UNCHANGED <<cache, now, answer, call, hist>>

\* run_ollama_optimizado returns in its worker thread, which is free again; the
\* value it returns is read by nothing before the handler resumes, and the
\* model draws it there
WorkerFinish(r) ==
    /\ req[r].pc = "running"
    /\ req' = [req EXCEPT ![r].pc = "finished"]
    /\ out' = NoOut
    /\ UNCHANGED <<cache, now, queue, answer, call, hist>>

(***************************************************************************)
(* POST /chat, from the await's return to the response.                    *)
(***************************************************************************)
ChatResume(r, outcome, stdout) ==
    /\ req[r].pc = "finished"
    /\ LET m == req[r].message
           message_hash == Locals[m].message_hash
           final_response == ModelResult[m, outcome, stdout].final_response
       IN  /\ cache' = CacheSet(cache, message_hash, final_response, now)
           /\ req' = [req EXCEPT ![r] = Done]
           /\ out' = ChatResponse(r, m, final_response, FALSE, outcome,
                                  Classified(m) \o <<"BuildPrompt", "InvokeModel">>
                                  \o AfterModel(outcome))
           /\ answer' \in Remember(answer, cache', message_hash, m, final_response, now)
    /\ UNCHANGED <<now, queue, call, hist>>

\* time passes
Tick ==
    /\ now + TickStep <= MaxTime
    /\ now' = now + TickStep
    /\ out' = NoOut
    /\ UNCHANGED <<cache, req, queue, answer, call, hist>>

Next ==
    \/ \E r \in 1..NumReq, m \in Messages : Chat(r, m)
    \/ WorkerStart
    \/ \E r \in 1..NumReq : WorkerFinish(r)
    \/ \E r \in 1..NumReq, o \in Outcomes, s \in Stdouts : ChatResume(r, o, s)
    \/ Tick

Spec == Init /\ [][Next]_vars

(***************************************************************************)
(* ResponseCache on its own: get and set called in any order, at any time. *)
(***************************************************************************)
\* the keys and the responses of the direct calls
CacheKeys == Fingerprints \cup {generar_hash_mensaje("Gracias "), generar_hash_mensaje("plan")}
CacheTexts == {fallback_response, INTELLIGENT_RESPONSES.saludo}

\* response_cache.get(k)
Get(k) ==
    /\ cache' = CacheGetStore(cache, k, now)
    /\ call' = [op |-> "get", key |-> k, value |-> CacheGetResult(cache, k, now),
                removed |-> k \in Keys(cache) /\ k \notin Keys(cache')]
    /\ hist' = IF cache' = cache THEN hist ELSE Impure
    /\ UNCHANGED <<now, req, queue, out, answer>>

\* response_cache.set(k, response)
Put(k, response) ==
    /\ cache' = CacheSet(cache, k, response, now)
    /\ call' = [op |-> "put", key |-> k, value |-> Some(response), removed |-> FALSE]
    /\ hist' = IF hist.pure /\ k \notin Keys(cache) /\ hist.n <= max_size
               THEN [pure |-> TRUE, n |-> hist.n + 1,
                     first |-> IF hist.n = 0 THEN k ELSE hist.first]
               ELSE Impure
    /\ UNCHANGED <<now, req, queue, out, answer>>

\* time passes
CacheTick ==
    /\ now + TickStep <= MaxTime
    /\ now' = now + TickStep
    /\ call' = NoCall
    /\ UNCHANGED <<cache, req, queue, out, answer, hist>>

CacheNext ==
    \/ \E k \in CacheKeys : Get(k)
    \/ \E k \in CacheKeys, response \in CacheTexts : Put(k, response)
    \/ CacheTick

SpecCache == Init /\ [][CacheNext]_vars

(***************************************************************************)
(* Properties.                                                             *)
(***************************************************************************)
\* the request bodies made of nothing but whitespace
BlankMessages == {m \in Messages : \A i \in 1..Len(m) : Char(m, i) \in Whitespace}

\* the store holds an entry of key k that is younger than ttl
Hit(k) == \E i \in 1..Len(cache) : cache[i].key = k /\ now - cache[i].timestamp < ttl

\* request r arrives in this step
Arrives(r) == req[r].pc = "idle" /\ req'[r].pc # "idle"
\* the body request r arrives with, read after its arrival step
Arrived(r) == IF out'.id = r THEN out'.message ELSE req'[r].message

\* C1: in every reachable state, whatever the interleaving of the requests
\* (those suspended on a model call included), the response cache holds at
\* most max_size entries.
C1_CacheBounded == Len(cache) <= max_size

\* a request resumed after its model call has written to a full cache, from
\* which an entry written while it was suspended has been evicted
C1_Witness ==
    /\ Len(cache) = max_size
    /\ out.id # 0 /\ out.outcome # "none"
    /\ now = 0
    /\ \E k \in Fingerprints : ~IsNone(answer[k]) /\ k \notin Keys(cache)

\* C2: a request whose message is not blank is answered with status 200 and
\* a response text that is not empty, however the model call ended; a request
\* whose message is empty or whitespace is answered with status 400.
C2_AnswerShape ==
    out.id # 0 =>
        IF out.message \in BlankMessages
        THEN out.status = 400
        ELSE out.status = 200 /\ out.response # ""

\* the model exited with 0 and an empty standard output, and the request is answered
C2_Witness ==
    /\ out.outcome = "success"
    /\ out.response = " ¿Necesitas que te guíe paso a paso?"

\* C3, as claimed: once a message has been answered by computing a response,
\* the same message sent again less than ttl later is answered at once with
\* that response text and cached = true, whatever happened in between.
C3_Original ==
    [][\A r \in Req :
        Arrives(r) =>
            LET m == Arrived(r)
                k == Locals[m].message_hash
            IN  (/\ m \notin BlankMessages
                 /\ ~IsNone(answer[k])
                 /\ Val(answer[k]).message = m
                 /\ now - Val(answer[k]).at < ttl)
                => /\ out'.id = r
                   /\ out'.cached
                   /\ out'.response = Val(answer[k]).response]_vars

\* C3, amended: the same holds provided the entry written by that answer is
\* still the fingerprint's entry (it has been neither evicted at capacity nor
\* overwritten by the answer of a request that had missed the cache too).
C3_Amended ==
    [][\A r \in Req :
        Arrives(r) =>
            LET m == Arrived(r)
                k == Locals[m].message_hash
            IN  (/\ m \notin BlankMessages
                 /\ ~IsNone(answer[k])
                 /\ Val(answer[k]).message = m
                 /\ now - Val(answer[k]).at < ttl
                 /\ Val(answer[k]).live)
                => /\ out'.id = r
                   /\ out'.cached
                   /\ out'.response = Val(answer[k]).response]_vars

\* a message is answered from the cache with the text computed for it
\* earlier, after time has passed
C3_Witness ==
    /\ out.cached
    /\ \E k \in Fingerprints :
          /\ ~IsNone(answer[k])
          /\ Val(answer[k]).message = out.message
          /\ Val(answer[k]).response = out.response
          /\ Val(answer[k]).at < now

\* C4: a 200 response that is not a cache hit is preceded, in the same step
\* of the handler, by a write of the returned text under the message's
\* fingerprint; a cache hit writes nothing.
C4_WriteBeforeRespond ==
    [][(out'.id # 0 /\ out'.status = 200) =>
          LET k == Locals[out'.message].message_hash
          IN  IF out'.cached
              THEN cache' = cache
              ELSE /\ k \in Keys(cache')
                   /\ EntryOf(cache', k).response = out'.response
                   /\ EntryOf(cache', k).timestamp = now]_vars

\* a canned response has been returned and is the fingerprint's entry
C4_Witness ==
    /\ out.status = 200 /\ ~out.cached /\ out.outcome = "none"
    /\ \E i \in 1..Len(cache) : cache[i].response = out.response

\* C5: a request with an empty or whitespace-only message is rejected with
\* 400 in ReceiveMessage and is terminal; its step leaves the cache as it is
\* and queues or starts no model call.
C5_RejectTouchesNothing ==
    [][(out'.id # 0 /\ out'.message \in BlankMessages) =>
          /\ out'.status = 400
          /\ out'.trace = <<"ReceiveMessage">>
          /\ req'[out'.id].pc = "done"
          /\ cache' = cache
          /\ queue' = queue
          /\ \A r \in Req \ {out'.id} : req'[r] = req[r]]_vars

\* a whitespace-only message is rejected while the cache holds entries and a
\* model call is in flight
C5_Witness ==
    /\ out.status = 400 /\ out.message = " "
    /\ cache # << >>
    /\ InFlight # {}

\* C8: a request that finds an entry younger than ttl under its fingerprint
\* is answered at once with the entry's text and cached = true, through
\* ReceiveMessage, CheckCache and Respond alone, and queues no model call;
\* every other 200 response has cached = false.
C8_HitShortCircuits ==
    [][/\ \A r \in Req :
            (Arrives(r) /\ Arrived(r) \notin BlankMessages
               /\ Hit(Locals[Arrived(r)].message_hash))
            => /\ out'.id = r
               /\ out'.status = 200
               /\ out'.cached
               /\ out'.response =
                     EntryOf(cache, Locals[Arrived(r)].message_hash).response
               /\ out'.trace = <<"ReceiveMessage", "CheckCache", "Respond">>
               /\ req'[r].pc = "done"
               /\ queue' = queue
       /\ (out'.id # 0 /\ out'.cached)
            => /\ Arrives(out'.id)
               /\ Hit(Locals[out'.message].message_hash)]_vars

\* a request is answered from the cache while a model call is in flight
C8_Witness == out.cached /\ out.status = 200 /\ InFlight # {}

\* C9: a model call is queued for an arriving request exactly when its cache
\* lookup missed and no canned response exists for it (no pattern matches, or
\* the label has no template); a request with a canned template is answered
\* through ResolveCanned, CacheWrite and Respond.  Calls start only from the
\* queue.
C9_InvokeIffNoShortcut ==
    [][/\ \A r \in Req :
            Arrives(r) =>
               LET m == Arrived(r)
                   intent == Locals[m].intencion
                   canned == ~IsNone(intent) /\ Val(intent) \in DOMAIN INTELLIGENT_RESPONSES
                   miss == m \notin BlankMessages /\ ~Hit(Locals[m].message_hash)
               IN  /\ (req'[r].pc = "queued") <=> (miss /\ ~canned)
                   /\ (req'[r].pc = "queued") <=> (\E i \in 1..Len(queue') : queue'[i] = r)
                   /\ req'[r].pc \in {"queued", "done"}
                   /\ (miss /\ canned) =>
                         /\ out'.id = r
                         /\ out'.trace = <<"ReceiveMessage", "CheckCache", "ClassifyIntent",
                                           "ResolveCanned", "CacheWrite", "Respond">>
       /\ \A r \in Req :
            /\ (req'[r].pc = "queued" /\ req[r].pc # "queued") => req[r].pc = "idle"
            /\ (req'[r].pc = "running" /\ req[r].pc # "running") => req[r].pc = "queued"]_vars

\* a message of intent explicacion_general, which has no template, and a
\* message that matches no pattern both have their model call pending or running
C9_Witness ==
    /\ \E r \in InFlight : req[r].message = "explica"
    /\ \E r \in InFlight : req[r].message = "xyz"

\* C10, as claimed: after a failed model call (non-zero exit, timeout, launch
\* error) the response is the static fallback text of the failure, unchanged,
\* and the request passes through neither Sanitize nor Enhance.
C10_FailureUsesStaticText ==
    out.outcome \in {"nonzero", "timeout", "launch_error"} =>
        /\ out.status = 200
        /\ out.response = (IF out.outcome = "timeout" THEN TIMEOUT_RESPONSE
                           ELSE fallback_response)
        /\ \A i \in 1..Len(out.trace) : out.trace[i] \notin {"Sanitize", "Enhance"}

\* C6: get returns the stored response exactly when the key has an entry
\* with now - timestamp < ttl; an entry that is older is removed by the call,
\* which returns None; get of a fresh entry or of an absent key leaves the
\* store as it is.
C6_GetContract ==
    [][(call'.op = "get" /\ now' = now) =>
          LET k == call'.key
              present == \E i \in 1..Len(cache) : cache[i].key = k
              e == EntryOf(cache, k)
          IN  /\ (~IsNone(call'.value)) <=> (present /\ now - e.timestamp < ttl_minutes)
              /\ ~IsNone(call'.value) => Val(call'.value) = e.response
              /\ (present /\ now - e.timestamp >= ttl_minutes) =>
                    /\ IsNone(call'.value)
                    /\ k \notin Keys(cache')
                    /\ Len(cache') = Len(cache) - 1
              /\ (~present \/ now - e.timestamp < ttl_minutes) => cache' = cache]_vars

\* get has found an entry of age ttl and removed it
C6_Witness == call.op = "get" /\ call.removed /\ IsNone(call.value)

\* C7: after max_size + 1 puts of distinct keys on an empty store (nothing
\* expiring) the store holds max_size entries and the key put first is gone;
\* a put of a new key on a full store removes one entry, of the least
\* timestamp, and nothing else.
C7_EvictsOldest ==
    /\ [](hist.pure /\ hist.n = max_size + 1 =>
             Len(cache) = max_size /\ hist.first \notin Keys(cache))
    /\ [][(call'.op = "put" /\ now' = now /\ call'.key \notin Keys(cache)
             /\ Len(cache) >= max_size) =>
             \E v \in Keys(cache) :
                /\ \A i \in 1..Len(cache) : EntryOf(cache, v).timestamp <= cache[i].timestamp
                /\ Keys(cache') = (Keys(cache) \ {v}) \cup {call'.key}
                /\ Len(cache') = max_size
                /\ \A x \in Keys(cache) \ {v} : EntryOf(cache', x) = EntryOf(cache, x)]_vars

\* max_size + 1 distinct keys have been put on the empty store
C7_Witness == hist.pure /\ hist.n = max_size + 1 /\ now > 0

(***************************************************************************)
(* The thread pool under load: more requests than worker threads, all of   *)
(* them arriving within the same minute.                                   *)
(***************************************************************************)
\* the requests beyond max_workers: enough for a saturated pool (max_workers
\* calls running and one queued), an entry in the cache and a request arriving
Extra == 3
PoolReq == max_workers + Extra

\* the request bodies of the load: one with a canned response, one without;
\* the model process prints nothing when it exits with 0
PoolMessages == {"hola", "xyz"}

InitPool ==
    /\ cache = << >>
    /\ now = 0
    /\ req = [r \in 1..PoolReq |-> [pc |-> "idle", message |-> ""]]
    /\ queue = << >>
    /\ out = NoOut
    /\ answer = [k \in Fingerprints |-> None]
    /\ call = NoCall
    /\ hist = NoHist

PoolNext ==
    \/ \E r \in 1..PoolReq, m \in PoolMessages : Chat(r, m)
    \/ WorkerStart
    \/ \E r \in 1..PoolReq : WorkerFinish(r)
    \/ \E r \in 1..PoolReq, o \in Outcomes : ChatResume(r, o, "")

SpecPool == InitPool /\ [][PoolNext]_vars

\* C11: in every reachable state at most max_workers model calls are running,
\* however many requests have missed the cache and the canned table; the
\* others wait in the pool's queue, and a call starts only by leaving the
\* head of the queue while fewer than max_workers calls are running.
C11_AtMostMaxWorkers ==
    /\ [](Cardinality({r \in 1..PoolReq : req[r].pc = "running"}) <= max_workers)
    /\ [](\A r \in 1..PoolReq :
            (req[r].pc = "queued") <=> (\E i \in 1..Len(queue) : queue[i] = r))
    /\ [][\A r \in 1..PoolReq :
            (req[r].pc # "running" /\ req'[r].pc = "running") =>
                /\ queue # << >> /\ Head(queue) = r
                /\ Cardinality({p \in 1..PoolReq : req[p].pc = "running"}) < max_workers]_vars

\* max_workers calls are running and Extra more wait in the queue
C11_Witness ==
    /\ Cardinality({r \in 1..PoolReq : req[r].pc = "running"}) = max_workers
    /\ Len(queue) = Extra

\* all worker threads are busy and further calls wait in the queue
PoolSaturated ==
    /\ Cardinality({r \in 1..PoolReq : req[r].pc = "running"}) = max_workers
    /\ queue # << >>

\* a request of body m would be answered from the cache or the canned table
FastPath(m) ==
    \/ Hit(Locals[m].message_hash)
    \/ /\ ~IsNone(Locals[m].intencion)
       /\ Val(Locals[m].intencion) \in DOMAIN INTELLIGENT_RESPONSES

\* C12: while all max_workers workers are busy and further calls are queued,
\* a request that hits the cache or has a canned response can arrive and is
\* answered (status 200) within its arrival step, from ReceiveMessage to
\* Respond, without a model call of its own and with every call in flight
\* left where it is.
C12_FastPathNeverWaits ==
    /\ [](PoolSaturated =>
            \A r \in 1..PoolReq, m \in PoolMessages :
                (/\ FastPath(m)
                 /\ req[r].pc = "idle"
                 /\ \A p \in 1..PoolReq : p < r => req[p].pc # "idle")
                => ENABLED (/\ Chat(r, m)
                            /\ out'.id = r /\ out'.status = 200
                            /\ req'[r].pc = "done"))
    /\ [][\A r \in 1..PoolReq :
            (PoolSaturated /\ Arrives(r) /\ FastPath(Arrived(r))) =>
                /\ out'.id = r /\ out'.status = 200
                /\ out'.trace[1] = "ReceiveMessage"
                /\ out'.trace[Len(out'.trace)] = "Respond"
                /\ \A i \in 1..Len(out'.trace) : out'.trace[i] # "InvokeModel"
                /\ req'[r].pc = "done"
                /\ queue' = queue
                /\ \A p \in 1..PoolReq \ {r} : req'[p] = req[p]]_vars

\* a canned response and a cache hit have each been returned while
\* max_workers calls were running and another one was queued
C12_Witness ==
    /\ PoolSaturated
    /\ out.status = 200 /\ out.outcome = "none"
    /\ out.cached
    /\ \E i \in 1..Len(cache) : cache[i].response = INTELLIGENT_RESPONSES.saludo

(***************************************************************************)
(* Fair scheduling: an idle worker thread takes the next pending call,     *)
(* subprocess.run returns or raises (at the latest when its timeout of 30  *)
(* seconds expires), and the event loop resumes a handler whose call has   *)
(* returned.  Arrivals are not forced.                                     *)
(***************************************************************************)
\* the requests beyond max_workers
Backlog == 1
FairReq == max_workers + Backlog

InitFair ==
    /\ cache = << >>
    /\ now = 0
    /\ req = [r \in 1..FairReq |-> [pc |-> "idle", message |-> ""]]
    /\ queue = << >>
    /\ out = NoOut
    /\ answer = [k \in Fingerprints |-> None]
    /\ call = NoCall
    /\ hist = NoHist

FairNext ==
    \/ \E r \in 1..FairReq, m \in PoolMessages : Chat(r, m)
    \/ WorkerStart
    \/ \E r \in 1..FairReq : WorkerFinish(r)
    \/ \E r \in 1..FairReq, o \in Outcomes : ChatResume(r, o, "")

SpecFair ==
    /\ InitFair /\ [][FairNext]_vars
    /\ WF_vars(WorkerStart)
    /\ WF_vars(\E r \in 1..FairReq : WorkerFinish(r))
    /\ WF_vars(\E r \in 1..FairReq, o \in Outcomes : ChatResume(r, o, ""))

\* C13: every request that has passed the validation and waits for the model
\* is eventually answered with status 200 and a text, and it gets there only
\* by its call starting from the queue, ending (whatever its outcome, the
\* timeout included) and leaving its worker: so every queued call eventually
\* starts and every running call eventually ends.  Requests served from the
\* cache or the canned table are answered in their arrival step.
C13_EveryCallEndsAndIsAnswered ==
    /\ \A r \in 1..FairReq :
          (req[r].pc = "queued") ~>
              (/\ out.id = r /\ out.status = 200 /\ out.response # ""
               /\ out.trace[Len(out.trace)] = "Respond"
               /\ req[r].pc = "done")
    /\ [][\A r \in 1..FairReq :
            /\ (req[r].pc = "queued" /\ req'[r].pc # "queued") => req'[r].pc = "running"
            /\ (req[r].pc = "running" /\ req'[r].pc # "running") =>
                  /\ req'[r].pc = "finished"
                  /\ Cardinality({p \in 1..FairReq : req'[p].pc = "running"})
                        = Cardinality({p \in 1..FairReq : req[p].pc = "running"}) - 1
            /\ (req[r].pc = "finished" /\ req'[r].pc # "finished") =>
                  req'[r].pc = "done" /\ out'.id = r
            /\ (req[r].pc = "idle" /\ req'[r].pc # "idle") =>
                  \/ req'[r].pc = "queued"
                  \/ req'[r].pc = "done" /\ out'.id = r]_vars

\* the call of the last request has ended by the timeout and the request is
\* answered, while the calls that arrived before it keep their workers busy
C13_Witness ==
    /\ out.id = FairReq /\ out.outcome = "timeout" /\ out.status = 200
    /\ Cardinality({r \in 1..FairReq : req[r].pc = "running"}) = max_workers - 1
    /\ \E r \in 1..FairReq : req[r].pc = "finished"

\* the handler's position as a number: a request only moves forward
Rank(pc) ==
    CASE pc = "idle" -> 0
      [] pc = "queued" -> 1
      [] pc = "running" -> 2
      [] pc = "finished" -> 3
      [] pc = "done" -> 4

\* C14: a request never goes back: its model call is queued at most once (at
\* arrival) and started at most once, so no call is started a second time;
\* it is answered exactly when it becomes done, which it stays; and when its
\* call has failed (non-zero exit, timeout, launch error) the resuming step
\* answers it at once with status 200 and a fallback text, queueing nothing.
C14_OneCallOneResponse ==
    [][\A r \in Req :
          /\ Rank(req'[r].pc) >= Rank(req[r].pc)
          /\ (req'[r].pc = "queued" /\ req[r].pc # "queued") => Arrives(r)
          /\ (req'[r].pc = "running" /\ req[r].pc # "running") => req[r].pc = "queued"
          /\ (out'.id = r) <=> (req[r].pc # "done" /\ req'[r].pc = "done")
          /\ (req[r].pc = "finished" /\ req'[r].pc # "finished") =>
                /\ out'.id = r /\ out'.status = 200
                /\ queue' = queue
                /\ out'.outcome \in {"nonzero", "launch_error"} =>
                      out'.response = fallback_response
                /\ out'.outcome = "timeout" =>
                      SubSeq(out'.response, 1, Len(TIMEOUT_RESPONSE)) = TIMEOUT_RESPONSE]_vars

\* a request whose model process exited with a non-zero code has been answered
\* with the fallback text, and no call is pending or running
C14_Witness ==
    /\ out.outcome = "nonzero" /\ out.response = fallback_response
    /\ req[out.id].pc = "done"
    /\ InFlight = {}

(***************************************************************************)
(* The text functions on their own, applied to every text of a bounded     *)
(* set: call holds the latest application (its argument and its value).    *)
(***************************************************************************)
\* the longest text over Alphabet, and the most words of a message
MaxLen == 4
MaxWords == 2

\* ESC, the CSI introducer, a parameter byte, an intermediate byte, a final
\* byte, a byte of [@-Z\\-_] (a final byte too); outside an escape sequence
\* each of them is an ordinary character
Alphabet == {ESC, "[", "1", " ", "m", "M"}

\* the texts over Alphabet of length n at most
RECURSIVE TextsUpTo(_)
TextsUpTo(n) ==
    IF n = 0 THEN {""}
    ELSE TextsUpTo(n - 1) \cup {s \o c : s \in TextsUpTo(n - 1), c \in Alphabet}

\* one word for each pattern of the table, one for no pattern, and one that
\* changes the canned response
Words == {"Hola", "GRACIAS", "chao", "plan", "reservar", "cancelar", "ayuda",
          "cuenta", "explica", "xyz", "urgente"}

\* the messages of n words at most
RECURSIVE MessagesUpTo(_)
MessagesUpTo(n) ==
    IF n = 0 THEN {""}
    ELSE MessagesUpTo(n - 1)
         \cup {IF s = "" THEN w ELSE s \o " " \o w : s \in MessagesUpTo(n - 1), w \in Words}

Texts == TextsUpTo(MaxLen) \cup MessagesUpTo(MaxWords)

InitText ==
    /\ cache = << >>
    /\ now = 0
    /\ req = << >>
    /\ queue = << >>
    /\ out = NoOut
    /\ answer = [k \in Fingerprints |-> None]
    /\ hist = NoHist
    /\ call \in {[op |-> "input", arg |-> x, value |-> None] : x \in Texts}

\* remove_ansi(text), of the input or of the value of the pass before
Sanitize ==
    /\ call.op \in {"input", "remove_ansi"}
    /\ LET text == IF call.op = "input" THEN call.arg ELSE call.value
       IN  call' = [op |-> "remove_ansi", arg |-> text, value |-> remove_ansi(text)]
    /\ UNCHANGED <<cache, now, req, queue, out, answer, hist>>

\* intencion = detectar_intencion(message)
DetectIntent ==
    /\ call.op = "input"
    /\ call' = [op |-> "detectar_intencion", arg |-> call.arg,
                value |-> detectar_intencion(call.arg)]
    /\ UNCHANGED <<cache, now, req, queue, out, answer, hist>>

\* if intencion: respuesta_rapida = procesar_respuesta_rapida(intencion, message)
QuickResponse ==
    /\ call.op = "detectar_intencion"
    /\ call' = [op |-> "procesar_respuesta_rapida", arg |-> call.arg,
                value |-> IF Truthy(call.value)
                          THEN procesar_respuesta_rapida(Val(call.value), call.arg)
                          ELSE None]
    /\ UNCHANGED <<cache, now, req, queue, out, answer, hist>>

TextNext == Sanitize \/ DetectIntent \/ QuickResponse

SpecText == InitText /\ [][TextNext]_vars

\* the patterns of the table of which an alternative occurs at some position
\* of the lower-cased text
MatchingPatterns(text) ==
    LET lowered == Lower(text)
    IN  {i \in 1..Len(QUESTION_PATTERNS) :
            \E a \in QUESTION_PATTERNS[i].alts :
                \E p \in 1..(Len(lowered) - Len(a) + 1) :
                    SubSeq(lowered, p, p + Len(a) - 1) = a}

\* C15: detectar_intencion returns the label of the matching pattern that is
\* declared first in the table, and None when no pattern matches; for a
\* message that matches two patterns or more, the quick response is the
\* template of the earliest-declared matching pattern (followed by the
\* step-by-step or the urgency sentence when the message asks for it).
C15_FirstDeclaredPatternWins ==
    [][(call'.op \in {"detectar_intencion", "procesar_respuesta_rapida"}) =>
          LET hits == MatchingPatterns(call'.arg)
          IN  /\ call'.op = "detectar_intencion" =>
                    IF hits = {} THEN IsNone(call'.value)
                    ELSE \E i \in hits :
                            /\ \A j \in hits : i <= j
                            /\ call'.value = Some(QUESTION_PATTERNS[i].key)
              /\ (call'.op = "procesar_respuesta_rapida" /\ Cardinality(hits) >= 2) =>
                    \E i \in hits :
                        /\ \A j \in hits : i <= j
                        /\ ~IsNone(call'.value)
                        /\ LET template == INTELLIGENT_RESPONSES[QUESTION_PATTERNS[i].key]
                           IN  SubSeq(Val(call'.value), 1, Len(template)) = template]_vars

\* a message whose first word matches the second pattern and whose second
\* word matches the first pattern gets the greeting
C15_Witness ==
    /\ call.op = "procesar_respuesta_rapida"
    /\ call.arg = "GRACIAS Hola"
    /\ call.value = Some(INTELLIGENT_RESPONSES.saludo)

\* C16, as claimed: remove_ansi is idempotent: a second pass over the output
\* of a pass returns that output unchanged, and the output of a pass holds
\* no match of ANSI_ESCAPE.
C16_SanitizeIdempotent ==
    [][(call.op = "remove_ansi" /\ call'.op = "remove_ansi") =>
          /\ call'.arg = call.value
          /\ call'.value = call.value
          /\ Matches(call.value, 1) = {}]_vars

\* C17, as claimed: a put evicts only when the store is at capacity and the
\* key written is not present yet: the put of a resumed request whose
\* fingerprint already has an entry (written meanwhile by a concurrent
\* request of the same message) removes no other fingerprint's entry and
\* leaves the number of entries unchanged.
C17_OverwriteEvictsNothing ==
    [][(out'.id # 0 /\ out'.status = 200 /\ ~out'.cached) =>
          LET k == Locals[out'.message].message_hash
              others == (Keys(cache) \ Keys(cache')) \ {k}
          IN  /\ (out'.outcome # "none" /\ k \in Keys(cache)) =>
                    /\ others = {}
                    /\ Len(cache') = Len(cache)
              /\ others # {} => (Len(cache) >= max_size /\ k \notin Keys(cache))]_vars

\* C18: a request that misses the cache and has no canned response queues
\* its own model call even when a call for the same fingerprint is already
\* pending or running; and every request resumed after its call writes its
\* own response under the fingerprint, whatever entry is there, so that the
\* entry holds the response written last.
C18_NoDeduplication ==
    [][/\ \A r \in Req :
            (/\ Arrives(r)
             /\ Arrived(r) \notin BlankMessages
             /\ ~Hit(Locals[Arrived(r)].message_hash)
             /\ ~Truthy(Locals[Arrived(r)].respuesta_rapida)
             /\ \E p \in Req \ {r} :
                   /\ req[p].pc \in {"queued", "running", "finished"}
                   /\ Locals[req[p].message].message_hash = Locals[Arrived(r)].message_hash)
            => /\ req'[r].pc = "queued"
               /\ queue' = Append(queue, r)
               /\ out'.id = 0
       /\ (out'.id # 0 /\ out'.outcome # "none") =>
            LET k == Locals[out'.message].message_hash
            IN  /\ req[out'.id].pc = "finished"
                /\ k \in Keys(cache')
                /\ EntryOf(cache', k).response = out'.response
                /\ EntryOf(cache', k).timestamp = now]_vars

\* two model calls for one fingerprint are running at the same time, and the
\* fingerprint has no entry
C18_Witness ==
    \E r1, r2 \in Running :
        /\ r1 # r2
        /\ Locals[req[r1].message].message_hash = Locals[req[r2].message].message_hash
        /\ Locals[req[r1].message].message_hash \notin Keys(cache)

\* the key k has the entry with the least timestamp of the store, and no
\* other entry is as old
StrictlyOldest(k) ==
    /\ k \in Keys(cache)
    /\ \A i \in 1..Len(cache) :
          cache[i].key # k => EntryOf(cache, k).timestamp < cache[i].timestamp

\* C19: a get that returns a response leaves the store as it is, timestamps
\* included; an entry changes only by a put of its own key, which stamps it
\* with the time of the put; so the entry just read is still the one a put
\* of a new key evicts from a full store when it is the oldest, and it is
\* still dropped by the get made ttl after its put.
C19_HitLeavesStoreUnchanged ==
    [][/\ (call'.op = "get" /\ ~IsNone(call'.value)) => cache' = cache
       /\ \A i \in 1..Len(cache) :
            (cache[i].key \in Keys(cache') /\ EntryOf(cache', cache[i].key) # cache[i]) =>
                /\ call'.op = "put" /\ call'.key = cache[i].key
                /\ EntryOf(cache', cache[i].key).timestamp = now
       /\ (/\ call.op = "get" /\ ~IsNone(call.value) /\ StrictlyOldest(call.key)
           /\ call'.op = "put" /\ call'.key \notin Keys(cache)
           /\ Len(cache) >= max_size)
          => call.key \notin Keys(cache')
       /\ (/\ call'.op = "get" /\ call'.key \in Keys(cache)
           /\ now - EntryOf(cache, call'.key).timestamp >= ttl_minutes)
          => IsNone(call'.value) /\ call'.key \notin Keys(cache')]_vars

\* the oldest entry of a full store has just been read, some time after it
\* was put, and still carries the time of its put
C19_Witness ==
    /\ call.op = "get" /\ ~IsNone(call.value)
    /\ Len(cache) = max_size
    /\ StrictlyOldest(call.key)
    /\ EntryOf(cache, call.key).timestamp < now

\* C20: in every reachable state every response text held by the cache is
\* not empty (canned templates, the fallback text, the enhanced timeout text
\* and every enhanced model output, the one made from an empty stdout
\* included); so an arriving request whose fingerprint has an entry younger
\* than ttl is never taken for a miss: it is answered with cached = true and
\* queues no model call.
C20_CachedTextsNonEmpty ==
    /\ [](\A i \in 1..Len(cache) : cache[i].response # "")
    /\ [][\A r \in Req :
            (Arrives(r) /\ Arrived(r) \notin BlankMessages
               /\ Hit(Locals[Arrived(r)].message_hash))
            => /\ out'.id = r /\ out'.cached
               /\ req'[r].pc # "queued"
               /\ cache' = cache]_vars

\* the entry made from an empty model output (the enhancer's offer alone) has
\* been served from the cache
C20_Witness ==
    /\ out.cached
    /\ out.response = " ¿Necesitas que te guíe paso a paso?"
    /\ \E i \in 1..Len(cache) : cache[i].response = out.response

====
